---- MODULE Spec2Model ----
(***************************************************************************)
(* A model of testregex.py: the script runs `find ./ -maxdepth 2`, waits   *)
(* for it, splits its output into lines, strips two characters off each    *)
(* line, matches the rest against one anchored regular expression and      *)
(* prints the list of matches and a `<path>, <True|False>` line.           *)
(*                                                                         *)
(* A Python string is a sequence of one-character strings.                 *)
(***************************************************************************)
EXTENDS Integers, Sequences, FiniteSets, TLC

VARIABLES
    pc,          \* where the script is: "popen", "communicate", "loop", "done", "raised"
    procState,   \* the find process: "none", "running", "exited"
    procOut,     \* everything find has written to its stdout pipe
    procErr,     \* the messages find has written to its stderr pipe
    procStatus,  \* find's exit status, -1 until it exits
    emitted,     \* the paths find has emitted, in order (history of procOut)
    files,       \* the script's variable files
    idx,         \* position of the for loop in files.split('\n'), from 1
    s,           \* the script's variable s
    matched,     \* the script's variable matched
    stdout,      \* the lines the script has printed
    stderr,      \* the lines on the script's diagnostic stream
    exitStatus   \* the script's exit status, -1 until it ends

vars == <<pc, procState, procOut, procErr, procStatus, emitted, files, idx, s,
          matched, stdout, stderr, exitStatus>>

NL == "\n"

Max(S) == CHOOSE x \in S : \A y \in S : y <= x

Min(S) == CHOOSE x \in S : \A y \in S : x <= y

Range(q) == {q[i] : i \in 1..Len(q)}

----------------------------------------------------------------------------
(* The regular expression of line 10.  A pattern is an optional ^, a group  *)
(* of alternatives and an optional $; an alternative is a sequence of      *)
(* tokens: a literal character (an escaped dot is the literal "."), a bare *)
(* dot, or `.*`.                                                           *)

Lit(str) == [i \in 1..Len(str) |-> [k |-> "lit", c |-> str[i]]]

Dot == <<[k |-> "dot", c |-> ""]>>

DotStar == <<[k |-> "dotstar", c |-> ""]>>

(* The same alternatives with every dot left unescaped.                    *)
AlternativesUnescaped ==
    << Lit(<<"d","e","p","l","o","y","/">>) \o DotStar,
       Lit(<<"h","a","c","k","/">>) \o DotStar,
       Lit(<<"i","n","t","e","g","r","a","t","i","o","n","_","t","e","s","t","/">>) \o DotStar,
       Lit(<<"i","n","t","e","r","n","a","l","/">>) \o DotStar,
       Lit(<<"p","a","c","k","a","g","e","s","/">>) \o DotStar,
       Lit(<<"p","k","g","/">>) \o DotStar,
       Lit(<<"r","p","m","-","p","r","e","f","e","t","c","h","i","n","g","/">>) \o DotStar,
       Lit(<<"D","o","c","k","e","r","f","i","l","e">>) \o Dot \o DotStar,
       Lit(<<"M","a","k","e","f","i","l","e">>),
       Lit(<<"g","o">>) \o Dot \o Lit(<<"m","o","d">>),
       Lit(<<"g","o">>) \o Dot \o Lit(<<"s","u","m">>),
       Dot \o Lit(<<"d","o","c","k","e","r","i","g","n","o","r","e">>),
       Lit(<<"b","u","i","l","d","_","d","e","p","l","o","y">>) \o Dot \o Lit(<<"s","h">>),
       Lit(<<"m","a","i","n">>) \o Dot \o Lit(<<"g","o">>),
       Lit(<<"r","e","n","o","v","a","t","e">>) \o Dot \o Lit(<<"j","s","o","n">>) >>

Alternatives ==
    << Lit(<<"d","e","p","l","o","y","/">>) \o DotStar,
       Lit(<<"h","a","c","k","/">>) \o DotStar,
       Lit(<<"i","n","t","e","g","r","a","t","i","o","n","_","t","e","s","t","/">>) \o DotStar,
       Lit(<<"i","n","t","e","r","n","a","l","/">>) \o DotStar,
       Lit(<<"p","a","c","k","a","g","e","s","/">>) \o DotStar,
       Lit(<<"p","k","g","/">>) \o DotStar,
       Lit(<<"r","p","m","-","p","r","e","f","e","t","c","h","i","n","g","/">>) \o DotStar,
       Lit(<<"D","o","c","k","e","r","f","i","l","e",".">>) \o DotStar,
       Lit(<<"M","a","k","e","f","i","l","e">>),
       Lit(<<"g","o",".","m","o","d">>),
       Lit(<<"g","o",".","s","u","m">>),
       Lit(<<".","d","o","c","k","e","r","i","g","n","o","r","e">>),
       Lit(<<"b","u","i","l","d","_","d","e","p","l","o","y",".","s","h">>),
       Lit(<<"m","a","i","n",".","g","o">>),
       Lit(<<"r","e","n","o","v","a","t","e",".","j","s","o","n">>) >>

(* The pattern without its anchors.                                        *)
PatternUnanchored == [bol |-> FALSE, alts |-> Alternatives, eol |-> FALSE]

Pattern == [bol |-> TRUE, alts |-> Alternatives, eol |-> TRUE]

(* re: the offsets at which the tokens toks, started at offset p of str,    *)
(* can end.  A dot matches any character but a line break.                 *)
RECURSIVE MatchEnds(_, _, _)
MatchEnds(toks, str, p) ==
    IF toks = <<>> THEN {p}
    ELSE LET t == Head(toks)
             r == Tail(toks)
         IN  CASE t.k = "lit" ->
                    IF p < Len(str) /\ str[p + 1] = t.c
                    THEN MatchEnds(r, str, p + 1) ELSE {}
               [] t.k = "dot" ->
                    IF p < Len(str) /\ str[p + 1] # NL
                    THEN MatchEnds(r, str, p + 1) ELSE {}
               [] t.k = "dotstar" ->
                    UNION { MatchEnds(r, str, q) :
                            q \in { q \in p..Len(str) :
                                    \A i \in (p + 1)..q : str[i] # NL } }

(* re: $ without MULTILINE holds at the end of the string and just before  *)
(* a line break that ends the string.                                      *)
AtEol(str, q) ==
    \/ q = Len(str)
    \/ q = Len(str) - 1 /\ str[Len(str)] = NL

(* re: the end of the match of pat that starts at offset p, or -1.  The    *)
(* first alternative that lets the rest of the pattern match wins, and its *)
(* `.*` (the last token of an alternative) takes as much as it can.        *)
MatchAt(pat, str, p) ==
    IF pat.bol /\ p # 0 THEN -1
    ELSE LET ends(a) == { q \in MatchEnds(pat.alts[a], str, p) :
                          pat.eol => AtEol(str, q) }
             good == { a \in 1..Len(pat.alts) : ends(a) # {} }
         IN  IF good = {} THEN -1 ELSE Max(ends(Min(good)))

(* re.findall with one group: the group's text of every match, scanning    *)
(* from the left, the next search starting where the last match ended.     *)
RECURSIVE FindAllFrom(_, _, _)
FindAllFrom(pat, str, p) ==
    IF p > Len(str) THEN <<>>
    ELSE LET e == MatchAt(pat, str, p)
         IN  IF e = -1 THEN FindAllFrom(pat, str, p + 1)
             ELSE <<SubSeq(str, p + 1, e)>>
                  \o FindAllFrom(pat, str, IF e = p THEN p + 1 ELSE e)

FindAll(pat, str) == FindAllFrom(pat, str, 0)

----------------------------------------------------------------------------
(* str.split('\n'), the slice [2:], repr and the % formatting.             *)

RECURSIVE Split(_)
Split(str) ==
    IF \A i \in 1..Len(str) : str[i] # NL THEN <<str>>
    ELSE LET i == Min({j \in 1..Len(str) : str[j] = NL})
         IN  <<SubSeq(str, 1, i - 1)>> \o Split(SubSeq(str, i + 1, Len(str)))

Slice2(str) == SubSeq(str, 3, Len(str))

ReprBool(b) == IF b THEN <<"T","r","u","e">> ELSE <<"F","a","l","s","e">>

RECURSIVE Escape(_, _)
Escape(str, quote) ==
    IF str = <<>> THEN <<>>
    ELSE LET c == Head(str)
         IN  (CASE c = NL -> <<"\\", "n">>
                [] c = "\\" -> <<"\\", "\\">>
                [] c = quote -> <<"\\", quote>>
                [] OTHER -> <<c>>)
             \o Escape(Tail(str), quote)

(* repr of a str: single quotes, unless it holds a single quote and no     *)
(* double quote.                                                           *)
ReprStr(str) ==
    LET quote == IF "'" \in Range(str) /\ "\"" \notin Range(str)
                 THEN "\"" ELSE "'"
    IN  <<quote>> \o Escape(str, quote) \o <<quote>>

RECURSIVE ReprItems(_)
ReprItems(list) ==
    IF list = <<>> THEN <<>>
    ELSE ReprStr(Head(list))
         \o (IF Tail(list) = <<>> THEN <<>> ELSE <<",", " ">>)
         \o ReprItems(Tail(list))

ReprList(list) == <<"[">> \o ReprItems(list) \o <<"]">>

ResultText(path, m) == path \o <<",", " ">> \o ReprBool(m)

(* print: the text and a line break; a line break inside the text starts   *)
(* another line.                                                           *)
Printed(text) == Split(text)

----------------------------------------------------------------------------
(* The listing: find ./ -maxdepth 2 emits the root first, then each entry  *)
(* once, and reports what it cannot read on its stderr and in its status.  *)

MaxEntries == 3

Root == <<".", "/">>

Names ==
    { <<"M","a","k","e","f","i","l","e">>,
      <<"g","o",".","m","o","d">>,
      <<"p","k","g">>,
      <<"p","k","g","/","a">>,
      <<"D","o","c","k","e","r","f","i","l","e",".","x">>,
      <<"R","E","A","D","M","E",".","m","d">>,
      <<"a", NL, "b", "c">> }

Entries == { Root \o n : n \in Names }

PermissionDenied == <<"f","i","n","d",":"," ","P","e","r","m","i","s","s","i","o","n"," ","d","e","n","i","e","d">>

Traceback == <<"F","i","l","e","N","o","t","F","o","u","n","d","E","r","r","o","r">>

Init ==
    /\ pc = "popen"
    /\ procState = "none"
    /\ procOut = <<>>
    /\ procErr = <<>>
    /\ procStatus = -1
    /\ emitted = <<>>
    /\ files = <<>>
    /\ idx = 1
    /\ s = <<>>
    /\ matched = FALSE
    /\ stdout = <<>>
    /\ stderr = <<>>
    /\ exitStatus = -1

(* Line 4: Popen starts find, or raises when find cannot be started; the   *)
(* exception is not caught and ends the script with a traceback.           *)
Popen ==
    /\ pc = "popen"
    /\ \E started \in BOOLEAN :
          IF started
          THEN /\ procState' = "running"
               /\ pc' = "communicate"
               /\ UNCHANGED <<stderr, exitStatus>>
          ELSE /\ pc' = "raised"
               /\ stderr' = Append(stderr, Traceback)
               /\ exitStatus' = 1
               /\ UNCHANGED procState
    /\ UNCHANGED <<procOut, procErr, procStatus, emitted, files, idx, s,
                   matched, stdout>>

FindEmit ==
    /\ procState = "running"
    /\ Len(emitted) < MaxEntries + 1
    /\ \E e \in (IF emitted = <<>> THEN {Root} ELSE Entries \ Range(emitted)) :
          /\ emitted' = Append(emitted, e)
          /\ procOut' = procOut \o e \o <<NL>>
    /\ UNCHANGED <<pc, procState, procErr, procStatus, files, idx, s, matched,
                   stdout, stderr, exitStatus>>

FindError ==
    /\ procState = "running"
    /\ procErr = <<>>
    /\ procErr' = Append(procErr, PermissionDenied)
    /\ UNCHANGED <<pc, procState, procOut, procStatus, emitted, files, idx, s,
                   matched, stdout, stderr, exitStatus>>

FindExit ==
    /\ procState = "running"
    /\ emitted # <<>> \/ procErr # <<>>
    /\ procState' = "exited"
    /\ procStatus' = IF procErr = <<>> THEN 0 ELSE 1
    /\ UNCHANGED <<pc, procOut, procErr, emitted, files, idx, s, matched,
                   stdout, stderr, exitStatus>>

(* A read of the pipe that does not wait for find to end.                  *)
CommunicateNoWait ==
    /\ pc = "communicate"
    /\ procState \in {"running", "exited"}
    /\ files' = procOut
    /\ pc' = "loop"
    /\ UNCHANGED <<procState, procOut, procErr, procStatus, emitted, idx, s,
                   matched, stdout, stderr, exitStatus>>

(* Line 6: communicate reads both pipes to their end and waits for find;   *)
(* the script keeps stdout and drops stderr and the status.                *)
Communicate ==
    /\ pc = "communicate"
    /\ procState = "exited"
    /\ files' = procOut
    /\ pc' = "loop"
    /\ UNCHANGED <<procState, procOut, procErr, procStatus, emitted, idx, s,
                   matched, stdout, stderr, exitStatus>>

(* Line 9: the list the for loop walks, and its current element.           *)
Lines == Split(files)

(* The list walked from its end.                                           *)
FileReversed == Lines[Len(Lines) + 1 - idx]

File == Lines[idx]

(* An off-by-one comparison.                                               *)
IsMatchedAlways(found) == Len(found) >= 0

(* A flag that is never reset.                                             *)
IsMatchedSticky(found) == matched \/ Len(found) > 0

(* Line 11.                                                                *)
IsMatched(found) == Len(found) > 0

(* Lines 10 to 13, one turn of the loop, with found the result of findall. *)
LoopBody(found) ==
    /\ pc = "loop"
    /\ idx <= Len(Lines)
    /\ s' = found
    /\ matched' = IsMatched(found)
    /\ stdout' = stdout \o Printed(ReprList(found))
                        \o Printed(ResultText(Slice2(File), IsMatched(found)))
    /\ idx' = idx + 1
    /\ UNCHANGED <<pc, procState, procOut, procErr, procStatus, emitted, files,
                   stderr, exitStatus>>

LoopIter == LoopBody(FindAll(Pattern, Slice2(File)))

(* The list is exhausted: the script ends, with status 0.                  *)
Exit ==
    /\ pc = "loop"
    /\ idx > Len(Lines)
    /\ pc' = "done"
    /\ exitStatus' = 0
    /\ UNCHANGED <<procState, procOut, procErr, procStatus, emitted, files, idx,
                   s, matched, stdout, stderr>>

Next ==
    \/ Popen
    \/ FindEmit
    \/ FindError
    \/ FindExit
    \/ Communicate
    \/ LoopIter
    \/ Exit

Spec == Init /\ [][Next]_vars

----------------------------------------------------------------------------
(* Reading the output back: the k-th record is the pair of lines 2k-1, 2k. *)

StartsWith(str, pre) ==
    Len(str) >= Len(pre) /\ SubSeq(str, 1, Len(pre)) = pre

EndsWith(str, suf) ==
    Len(str) >= Len(suf) /\ SubSeq(str, Len(str) - Len(suf) + 1, Len(str)) = suf

TrueSuffix == <<",", " ", "T", "r", "u", "e">>

FalseSuffix == <<",", " ", "F", "a", "l", "s", "e">>

Records == 1..(Len(stdout) \div 2)

DiagLine(k) == stdout[2 * k - 1]

ResultLine(k) == stdout[2 * k]

SaysTrue(line) == EndsWith(line, TrueSuffix)

SaysFalse(line) == EndsWith(line, FalseSuffix)

PathOf(line) ==
    SubSeq(line, 1, Len(line) - (IF SaysTrue(line) THEN Len(TrueSuffix)
                                                   ELSE Len(FalseSuffix)))

EmptyList == <<"[", "]">>

ListOfOne(path) == <<"[", "'">> \o path \o <<"'", "]">>

NLCount(str) == Cardinality({i \in 1..Len(str) : str[i] = NL})

(* The first record of the i-th emitted path: one record per line break    *)
(* find has written before it.                                             *)
RECURSIVE RecStart(_)
RecStart(i) ==
    IF i = 1 THEN 1 ELSE RecStart(i - 1) + 1 + NLCount(emitted[i - 1])

----------------------------------------------------------------------------
(* The filter alone: the listing has ended after the root and one entry,   *)
(* whose name is drawn from the allowlist's names, each also cut short by  *)
(* a character, with one character replaced, and with up to MaxPad         *)
(* characters put before and after it.                                     *)

MaxPad == 2

LiteralNames ==
    { <<"M","a","k","e","f","i","l","e">>,
      <<"g","o",".","m","o","d">>,
      <<"g","o",".","s","u","m">>,
      <<".","d","o","c","k","e","r","i","g","n","o","r","e">>,
      <<"b","u","i","l","d","_","d","e","p","l","o","y",".","s","h">>,
      <<"m","a","i","n",".","g","o">>,
      <<"r","e","n","o","v","a","t","e",".","j","s","o","n">> }

DirPrefixes ==
    { <<"d","e","p","l","o","y","/">>,
      <<"h","a","c","k","/">>,
      <<"i","n","t","e","g","r","a","t","i","o","n","_","t","e","s","t","/">>,
      <<"i","n","t","e","r","n","a","l","/">>,
      <<"p","a","c","k","a","g","e","s","/">>,
      <<"p","k","g","/">>,
      <<"r","p","m","-","p","r","e","f","e","t","c","h","i","n","g","/">> }

DockerfileDot == <<"D","o","c","k","e","r","f","i","l","e",".">>

PadChars == {"x", "/", "."}

RECURSIVE Pads(_)
Pads(n) ==
    IF n = 0 THEN {<<>>}
    ELSE Pads(n - 1) \cup {Append(q, c) : q \in Pads(n - 1), c \in PadChars}

Variants(core) ==
    {core, SubSeq(core, 1, Len(core) - 1)}
        \cup {[core EXCEPT ![i] = "X"] : i \in 1..Len(core)}

Padded(cores) ==
    {pre \o v \o post :
        pre \in Pads(MaxPad), post \in Pads(MaxPad),
        v \in UNION {Variants(core) : core \in cores}}

FilterInputs == Padded(LiteralNames \cup DirPrefixes \cup {DockerfileDot})

InitListed(inputs) ==
    /\ pc = "communicate"
    /\ procState = "exited"
    /\ procErr = <<>>
    /\ procStatus = 0
    /\ \E name \in inputs :
          /\ emitted = <<Root, Root \o name>>
          /\ procOut = Root \o <<NL>> \o Root \o name \o <<NL>>
    /\ files = <<>>
    /\ idx = 1
    /\ s = <<>>
    /\ matched = FALSE
    /\ stdout = <<>>
    /\ stderr = <<>>
    /\ exitStatus = -1

InitFilter == InitListed(FilterInputs)

NextFilter ==
    \/ Communicate
    \/ LoopIter
    \/ Exit

SpecFilter == InitFilter /\ [][NextFilter]_vars

----------------------------------------------------------------------------
(* Policy A, the second script: the same loop around a pattern that holds  *)
(* of a path that ends with the separator and is none of the excluded      *)
(* names.                                                                  *)

Separator == <<"/">>

(* Policy A without its trailing-separator condition.                      *)
MatchesANoSeparator(str) ==
    /\ str # <<".","g","i","t","i","g","n","o","r","e">>
    /\ ~StartsWith(str, <<".","t","e","k","t","o","n","/">>)
    /\ str # <<"O","W","N","E","R","S">>
    /\ str # <<"L","I","C","E","N","S","E">>
    /\ ~EndsWith(str, <<".","m","d">>)

MatchesA(str) ==
    /\ EndsWith(str, Separator)
    /\ str # <<".","g","i","t","i","g","n","o","r","e">>
    /\ ~StartsWith(str, <<".","t","e","k","t","o","n","/">>)
    /\ str # <<"O","W","N","E","R","S">>
    /\ str # <<"L","I","C","E","N","S","E">>
    /\ ~EndsWith(str, <<".","m","d">>)

FindAllA(str) == IF MatchesA(str) THEN <<str>> ELSE <<>>

LoopIterA == LoopBody(FindAllA(Slice2(File)))

PolicyAInputs ==
    Padded({ <<"d","o","c","s","/">>,
             <<".","t","e","k","t","o","n","/">>,
             <<".","t","e","k","t","o","n","/","p","i","p","e","l","i","n","e","s","/">>,
             <<"L","I","C","E","N","S","E">>,
             <<"O","W","N","E","R","S">>,
             <<".","g","i","t","i","g","n","o","r","e">>,
             <<"R","E","A","D","M","E",".","m","d">>,
             <<"a",".","m","d">> })

InitA == InitListed(PolicyAInputs)

NextA ==
    \/ Communicate
    \/ LoopIterA
    \/ Exit

SpecA == InitA /\ [][NextA]_vars

----------------------------------------------------------------------------
(* C1: a result line says True exactly when its path is one of the literal *)
(* names, or starts with one of the directory prefixes or with             *)
(* `Dockerfile.`; the whole path is compared.                              *)
AllowedB(str) ==
    \/ str \in LiteralNames
    \/ \E pre \in DirPrefixes \cup {DockerfileDot} : StartsWith(str, pre)

C1_PolicyBAllowlist ==
    \A k \in Records :
        /\ SaysTrue(ResultLine(k)) # SaysFalse(ResultLine(k))
        /\ SaysTrue(ResultLine(k)) <=> AllowedB(PathOf(ResultLine(k)))

(* `goXmod`, the name with its dot replaced, has been printed as False.    *)
C1_Witness ==
    \E k \in Records :
        ResultLine(k) = <<"g","o","X","m","o","d">> \o FalseSuffix

(* C2: a record whose raw line has at most two characters, or whose        *)
(* printed path is empty, is printed as `, False`: no result line has an   *)
(* empty path and True.                                                    *)
C2_EmptyPathIsFalse ==
    \A k \in Records :
        (Len(Lines[k]) <= 2 \/ PathOf(ResultLine(k)) = <<>>)
            => ResultLine(k) = FalseSuffix

(* The root entry and a two-character line have both been printed.         *)
C2_Witness ==
    /\ pc = "done"
    /\ \E k \in Records : Lines[k] = Root /\ ResultLine(k) = FalseSuffix
    /\ \E k \in Records : Lines[k] = <<"b", "c">> /\ ResultLine(k) = FalseSuffix

(* C3: when the listing cannot be started or ends with a nonzero status,   *)
(* the script ends with a nonzero status and a message on its diagnostic   *)
(* stream.                                                                 *)
C3_ListingFailureSurfaced ==
    (/\ pc \in {"done", "raised"}
     /\ procState = "none" \/ procStatus > 0)
        => exitStatus # 0 /\ stderr # <<>>

(* C4: when the script has ended, it has printed two lines per emitted     *)
(* path, and every result line is that of an emitted path (stated for a    *)
(* listing that ended with status 0).                                      *)
C4_TwoLinesPerEmittedPath ==
    (pc = "done" /\ procStatus = 0) =>
        /\ Len(stdout) = 2 * Len(emitted)
        /\ \A k \in Records :
              \E i \in 1..Len(emitted) : Root \o PathOf(ResultLine(k)) = emitted[i]

(* C5: every processed raw line starts with `./`, and the printed path is  *)
(* the raw line without these two characters (stated for a listing that    *)
(* ended with status 0).                                                   *)
C5_StripsDotSlashOnly ==
    procStatus = 0 => \A k \in Records :
        /\ StartsWith(Lines[k], Root)
        /\ Root \o PathOf(ResultLine(k)) = Lines[k]

(* C6: the records are printed in the order of the listing: the lines of   *)
(* the i-th emitted path are at the places its rank in the listing gives   *)
(* them, diagnostic line first, and at the end none is missing.            *)
C6_ListingOrder ==
    /\ stdout # <<>> => Len(stdout) = 2 * (idx - 1)
    /\ \A i \in 1..Len(emitted) :
          \A j \in 0..NLCount(emitted[i]) :
              LET r == RecStart(i) + j
                  path == Slice2(Split(emitted[i])[j + 1])
              IN  /\ pc = "done" => r \in Records
                  /\ r \in Records =>
                        /\ PathOf(ResultLine(r)) = path
                        /\ DiagLine(r) \in {EmptyList, ListOfOne(path)}

(* Two entries after the root have been printed, a matched one first.      *)
C6_Witness ==
    /\ pc = "done"
    /\ Len(emitted) = 3
    /\ SaysTrue(ResultLine(2))
    /\ SaysFalse(ResultLine(3))
    /\ PathOf(ResultLine(3)) # <<>>

(* C7: the script processes output only after find has ended, and what it  *)
(* processes is all that find wrote.                                       *)
C7_WaitsForListing ==
    /\ (pc \in {"loop", "done"} \/ stdout # <<>>) =>
            procState = "exited" /\ files = procOut
    /\ pc = "done" => Len(stdout) = 2 * Len(Split(procOut))

(* The loop is under way on a listing of several entries.                  *)
C7_Witness ==
    /\ pc = "loop"
    /\ idx > 2
    /\ Len(emitted) >= 2
    /\ procState = "exited"

(* C8: two result lines for the same path say the same, wherever they are  *)
(* in the output.                                                          *)
C8_SamePathSameResult ==
    \A j, k \in Records :
        PathOf(ResultLine(j)) = PathOf(ResultLine(k))
            => SaysTrue(ResultLine(j)) = SaysTrue(ResultLine(k))

(* The same path printed twice, with a matched record in between.          *)
C8_Witness ==
    \E j, m, k \in Records :
        /\ j < m /\ m < k
        /\ PathOf(ResultLine(j)) = PathOf(ResultLine(k))
        /\ SaysTrue(ResultLine(m))

(* C9: under Policy A a result line says False for a path that does not    *)
(* end with the separator, and True for a path that ends with it and       *)
(* neither starts with `.gitignore`, `.tekton/`, `OWNERS` or `LICENSE` nor *)
(* ends with `.md`.                                                        *)
DenyNames ==
    { <<".","g","i","t","i","g","n","o","r","e">>,
      <<".","t","e","k","t","o","n","/">>,
      <<"O","W","N","E","R","S">>,
      <<"L","I","C","E","N","S","E">> }

Denylisted(str) ==
    \/ \E n \in DenyNames : StartsWith(str, n)
    \/ EndsWith(str, <<".","m","d">>)

C9_PolicyADirectories ==
    \A k \in Records :
        LET path == PathOf(ResultLine(k))
        IN  /\ ~EndsWith(path, Separator) => SaysFalse(ResultLine(k))
            /\ (EndsWith(path, Separator) /\ ~Denylisted(path))
                    => SaysTrue(ResultLine(k))

(* `docs/` has been printed as True, after the root as False.              *)
C9_Witness ==
    \E k \in Records :
        /\ ResultLine(1) = FalseSuffix
        /\ ResultLine(k) = <<"d","o","c","s","/">> \o TrueSuffix

(* C10: the diagnostic line of a record is the empty list exactly when its *)
(* result line says False, and it is the list of the one printed path when *)
(* the result line says True.                                              *)
C10_DiagnosticAgrees ==
    \A k \in Records :
        /\ DiagLine(k) = EmptyList <=> SaysFalse(ResultLine(k))
        /\ SaysTrue(ResultLine(k))
              => DiagLine(k) = ListOfOne(PathOf(ResultLine(k)))

(* `pkg/x` has been printed as matched, after the unmatched root.          *)
C10_Witness ==
    \E j, k \in Records :
        /\ j < k
        /\ DiagLine(j) = EmptyList
        /\ ResultLine(k) = <<"p","k","g","/","x">> \o TrueSuffix
        /\ DiagLine(k) = ListOfOne(<<"p","k","g","/","x">>)

====
